---------------------------- MODULE Spec2Model ----------------------------
(***************************************************************************)
(* A model of the SCIM attribute/schema validation engine: schema.validate, *)
(* attributes.validate, attribute.validate and attribute.validateSingular.  *)
(*                                                                          *)
(* A decoded JSON value (Go interface{} produced by json.Decoder with       *)
(* UseNumber) is a record [t, v]: t is the dynamic type, v the payload.     *)
(*   "null"    nil                                                          *)
(*   "bool"    bool                                                         *)
(*   "string"  string                                                       *)
(*   "number"  json.Number; v is the literal's text, one character per      *)
(*             element, exactly as it stood in the document                 *)
(*   "array"   []interface{}; v is a sequence of values                     *)
(*   "object"  map[string]interface{}; v is a function from keys to values  *)
(* Values built by the validator itself carry two more dynamic types:       *)
(*   "core"    CoreAttributes; v is a function from names to values         *)
(*   "list"    []CoreAttributes; v is a sequence of "core" values           *)
(***************************************************************************)
EXTENDS Naturals, Sequences, FiniteSets, TLC

VARIABLES
    schema,          \* s.Attributes of the schema the calls are made on
    raw,             \* the document handed to schema.validate
    mode,            \* the validationMode of the call in progress
    pc,              \* "init", "idle", "loop" (inside attributes.validate), "done"
    idx,             \* position of `range as` in attributes.validate
    coreAttributes,  \* the accumulator of attributes.validate
    hit,             \* the value matched for the attribute handled last
    attrOut,         \* what attribute.validate returned for it
    err,             \* the error it returned
    result,          \* what schema.validate returned: [err, out]
    calls,           \* the calls running side by side, one record per caller
    heap             \* the maps those calls allocated, by address

vars ==
    <<schema, raw, mode, pc, idx, coreAttributes, hit, attrOut, err, result, calls, heap>>

-----------------------------------------------------------------------------
(* Bounds of the model. *)

\* longest array in an input document
MaxArr == 2

\* callers that run schema.validate side by side
MaxCalls == 2

-----------------------------------------------------------------------------
(* JSON values. *)

Null == [t |-> "null", v |-> 0]
Bool(b) == [t |-> "bool", v |-> b]
Str(s) == [t |-> "string", v |-> s]
Num(lit) == [t |-> "number", v |-> lit]
Arr(seq) == [t |-> "array", v |-> seq]
Obj(f) == [t |-> "object", v |-> f]
Core(f) == [t |-> "core", v |-> f]
List(seq) == [t |-> "list", v |-> seq]

\* a document json.Decoder cannot decode
Malformed == [t |-> "malformed", v |-> 0]

EmptyMap == [k \in {} |-> Null]
\* CoreAttributes{}
EmptyCore == Core(EmptyMap)
\* CoreAttributes{name: value}
Single(name, value) == Core([k \in {name} |-> value])

-----------------------------------------------------------------------------
(* Enumerations of the schema language. *)

attributeTypeBinary == "binary"
attributeTypeBoolean == "boolean"
attributeTypeComplex == "complex"
attributeTypeDateTime == "dateTime"
attributeTypeDecimal == "decimal"
attributeTypeInteger == "integer"
attributeTypeReference == "reference"
attributeTypeString == "string"

attributeMutabilityImmutable == "immutable"
attributeMutabilityReadOnly == "readOnly"
attributeMutabilityReadWrite == "readWrite"
attributeMutabilityWriteOnly == "writeOnly"

attributeReturnedAlways == "always"
attributeReturnedDefault == "default"
attributeReturnedNever == "never"
attributeReturnedRequest == "request"

read == "read"
write == "write"
replace == "replace"
Modes == {read, write, replace}

\* An attribute definition. Description, CanonicalValues, CaseExact,
\* Uniqueness and ReferenceTypes are never read by validation and are left out.
Attr(name, type, sub, multi, required, mutability, returned) ==
    [Name |-> name, Type |-> type, SubAttributes |-> sub, MultiValued |-> multi,
     Required |-> required, Mutability |-> mutability, Returned |-> returned]

-----------------------------------------------------------------------------
(* Errors. An error keeps the kind of its message and the name or type the  *)
(* message is formatted with; the %v rendering of the offending value is    *)
(* left out.                                                                *)

Err(kind, arg) == [kind |-> kind, arg |-> arg]
NoError == Err("nil", "")

ErrDecode == Err("decode", "")
ErrRequired(name) == Err("cannot find required value", name)
ErrSlice == Err("cannot convert to a slice", "")
ErrEmptyArray == Err("required array is empty", "")
ErrImmutable(name) == Err("immutable field", name)
ErrType(type) == Err("cannot convert to type", type)
ErrNumber == Err("cannot convert to a json.Number", "")
ErrNotInteger == Err("is not an integer value", "")
ErrInvalidType(type) == Err("not implemented/invalid type", type)
ErrDuplicate(key) == Err("duplicate key", key)

-----------------------------------------------------------------------------
(* Strings. Names and keys are drawn from a small alphabet of identifiers;  *)
(* strings.ToLower is tabulated on it and strings.EqualFold compares the    *)
(* folded forms.                                                            *)

ToLower(s) ==
    CASE s = "A" -> "a"
      [] s = "S" -> "s"
      [] OTHER -> s

EqualFold(s, u) == ToLower(s) = ToLower(u)

\* strings.Contains(lit, ch) for a one-character needle
Contains(lit, ch) == \E p \in 1..Len(lit) : lit[p] = ch

-----------------------------------------------------------------------------
(* The validator.  Every operator returns Res(err, out), the pair of Go      *)
(* return values.  `ord` is the order in which `range c` visits the keys of  *)
(* a map during the call: a sequence holding every key once.                 *)

Res(e, out) == [err |-> e, out |-> out]

\* the keys of map c in the order `range c` visits them
KeysInOrder(c, ord) == SelectSeq(ord, LAMBDA k : k \in DOMAIN c)

\* the scan with `hit != nil` standing in for `found`
RECURSIVE ScanFromNonNil(_, _, _, _, _, _)
ScanFromNonNil(name, c, keys, p, found, h) ==
    IF p > Len(keys) THEN [err |-> NoError, hit |-> h]
    ELSE IF EqualFold(name, keys[p])
         THEN IF h.t # "null"
              THEN [err |-> ErrDuplicate(ToLower(keys[p])), hit |-> Null]
              ELSE ScanFromNonNil(name, c, keys, p + 1, TRUE, c[keys[p]])
         ELSE ScanFromNonNil(name, c, keys, p + 1, found, h)

\* attributes.validate, the "validate duplicate" loop: the value matched for
\* `name` among the keys of c (nil when none), or the duplicate key error.
RECURSIVE ScanFrom(_, _, _, _, _, _)
ScanFrom(name, c, keys, p, found, h) ==
    IF p > Len(keys) THEN [err |-> NoError, hit |-> h]
    ELSE IF EqualFold(name, keys[p])
         THEN IF found
              THEN [err |-> ErrDuplicate(ToLower(keys[p])), hit |-> Null]
              ELSE ScanFrom(name, c, keys, p + 1, TRUE, c[keys[p]])
         ELSE ScanFrom(name, c, keys, p + 1, found, h)

Scan(name, c, ord) == ScanFrom(name, c, KeysInOrder(c, ord), 1, FALSE, Null)

\* coreAttributes[k] = v for every k, v of m
Merge(acc, m) ==
    [k \in DOMAIN acc \cup DOMAIN m |-> IF k \in DOMAIN m THEN m[k] ELSE acc[k]]

\* the returnability gate without its attributeReturnedDefault case
ReturnableAlwaysOnly(a, md) ==
    md # read /\ a.Returned = attributeReturnedAlways

\* attribute.validateSingular, the returnability gate
Returnable(a, md) ==
    md # read /\ (a.Returned = attributeReturnedAlways \/ a.Returned = attributeReturnedDefault)

\* attribute.validateSingular, the integer case on a json.Number
IntegerCheck(lit) ==
    IF Contains(lit, ".") \/ Contains(lit, "e") THEN ErrNotInteger ELSE NoError

RECURSIVE AttributesValidate(_, _, _, _)
RECURSIVE AttributesLoop(_, _, _, _, _, _)
RECURSIVE ValidateSingular(_, _, _, _)
RECURSIVE ValidateElements(_, _, _, _, _, _)
RECURSIVE AttributeValidate(_, _, _, _)

\* attribute.validateSingular, the switch on a.Type: the error it ends with
TypeCheck(a, i, md, ord) ==
    CASE a.Type = attributeTypeBoolean ->
           IF i.t = "bool" THEN NoError ELSE ErrType(a.Type)
      [] a.Type = attributeTypeComplex ->
           AttributesValidate(a.SubAttributes, i, md, ord).err
      [] a.Type \in {attributeTypeString, attributeTypeReference} ->
           IF i.t = "string" THEN NoError ELSE ErrType(a.Type)
      [] a.Type = attributeTypeInteger ->
           IF i.t # "number" THEN ErrNumber ELSE IntegerCheck(i.v)
      [] OTHER -> ErrInvalidType(a.Type)

\* the mutability switch with the bodies of its two cases exchanged
MutabilityGateSwapped(a, md) ==
    IF md = replace /\ a.Mutability = attributeMutabilityImmutable THEN "drop"
    ELSE IF md = replace /\ a.Mutability = attributeMutabilityReadOnly THEN "error"
    ELSE "pass"

\* attribute.validateSingular, the mutability switch of replace mode:
\* "error", "drop" or "pass"
MutabilityGate(a, md) ==
    IF md = replace /\ a.Mutability = attributeMutabilityImmutable THEN "error"
    ELSE IF md = replace /\ a.Mutability = attributeMutabilityReadOnly THEN "drop"
    ELSE "pass"

\* attribute.validateSingular, after the type switch ended with error e
SingularReturn(a, i, md, e) ==
    IF e # NoError THEN Res(e, EmptyCore)
    ELSE IF Returnable(a, md) THEN Res(NoError, Single(a.Name, i))
    ELSE Res(NoError, EmptyCore)

\* attribute.validateSingular
ValidateSingular(a, i, md, ord) ==
    IF MutabilityGate(a, md) = "error" THEN Res(ErrImmutable(a.Name), EmptyCore)
    ELSE IF MutabilityGate(a, md) = "drop" THEN Res(NoError, EmptyCore)
    ELSE SingularReturn(a, i, md, TypeCheck(a, i, md, ord))

\* the loop body putting what validateSingular returned ahead of the list
ElementDonePrepended(a, arr, md, ord, p, acc, r) ==
    IF r.err # NoError THEN [err |-> r.err, list |-> <<>>]
    ELSE ValidateElements(a, arr, md, ord, p + 1, <<r.out>> \o acc)

\* attribute.validate, the body of the loop over the elements once
\* validateSingular returned r for element p: [err, list]
ElementDone(a, arr, md, ord, p, acc, r) ==
    IF r.err # NoError THEN [err |-> r.err, list |-> <<>>]
    ELSE ValidateElements(a, arr, md, ord, p + 1, Append(acc, r.out))

\* attribute.validate, the loop over the elements of the array from element
\* p on, the list built so far being acc: [err, list]
ValidateElements(a, arr, md, ord, p, acc) ==
    IF p > Len(arr) THEN [err |-> NoError, list |-> acc]
    ELSE ElementDone(a, arr, md, ord, p, acc, ValidateSingular(a, arr[p], md, ord))

\* attribute.validate, what the multi-valued branch returns once every
\* element has validated
MultiValuedReturn(a, list, md) ==
    IF md # read THEN Res(NoError, Single(a.Name, List(list)))
    ELSE Res(NoError, EmptyCore)

\* attribute.validate, the multi-valued branch after its loop ended with r
MultiValuedDone(a, md, r) ==
    IF r.err # NoError THEN Res(r.err, EmptyCore)
    ELSE MultiValuedReturn(a, r.list, md)

\* attribute.validate, the test for an empty required array
EmptyArrayCheck(a, arr) == Len(arr) = 0 /\ a.Required

\* the nil value accepted without a look at a.Required
MissingValueAccepted(a) == Res(NoError, EmptyCore)

\* attribute.validate, the "validate required" block entered on a nil value
MissingValue(a) ==
    IF a.Required THEN Res(ErrRequired(ToLower(a.Name)), EmptyCore)
    ELSE Res(NoError, EmptyCore)

\* attribute.validate
AttributeValidate(a, i, md, ord) ==
    IF i.t = "null" THEN MissingValue(a)
    ELSE IF a.MultiValued
    THEN IF i.t # "array" THEN Res(ErrSlice, EmptyCore)
         ELSE IF EmptyArrayCheck(a, i.v) THEN Res(ErrEmptyArray, EmptyCore)
         ELSE MultiValuedDone(a, md, ValidateElements(a, i.v, md, ord, 1, <<>>))
    ELSE ValidateSingular(a, i, md, ord)

\* attributes.validate, the end of an iteration: attribute.validate returned
\* r for the matched value h, the accumulator being acc
Merged(md, acc, h, r) ==
    [err |-> r.err, hit |-> h, out |-> r.out,
     acc |-> IF r.err = NoError /\ md # read THEN Merge(acc, r.out.v) ELSE acc]

\* attributes.validate, an iteration after its scan of the keys returned sc
Matched(a, md, ord, acc, sc) ==
    IF sc.err # NoError
    THEN [err |-> sc.err, hit |-> sc.hit, out |-> EmptyCore, acc |-> acc]
    ELSE Merged(md, acc, sc.hit, AttributeValidate(a, sc.hit, md, ord))

\* attributes.validate, one iteration of `for _, attribute := range as` on
\* the k-th attribute with accumulator acc: [err, hit, out, acc]
LoopBody(as, c, md, ord, k, acc) ==
    Matched(as[k], md, ord, acc, Scan(as[k].Name, c, ord))

\* the error returned with the mapping built so far
ErrorReturnPartial(e, acc) == Res(e, Core(acc))

\* attributes.validate, what is returned when the loop stops on error e
ErrorReturn(e, acc) == Res(e, EmptyCore)

\* attributes.validate, the loop after its k-th iteration ended with b
LoopNext(as, c, md, ord, k, b) ==
    IF b.err # NoError THEN ErrorReturn(b.err, b.acc)
    ELSE AttributesLoop(as, c, md, ord, k + 1, b.acc)

\* attributes.validate, the loop from the k-th attribute on
AttributesLoop(as, c, md, ord, k, acc) ==
    IF k > Len(as) THEN Res(NoError, Core(acc))
    ELSE LoopNext(as, c, md, ord, k, LoopBody(as, c, md, ord, k, acc))

\* attributes.validate
AttributesValidate(as, i, md, ord) ==
    IF i.t # "object" THEN Res(ErrType(attributeTypeComplex), EmptyCore)
    ELSE AttributesLoop(as, i.v, md, ord, 1, EmptyMap)

\* schema.validate
SchemaValidate(as, doc, md, ord) ==
    IF doc.t = "malformed" THEN Res(ErrDecode, EmptyCore)
    ELSE AttributesValidate(as, doc, md, ord)

\* A CoreAttributes value written out with json.Marshal and decoded again as
\* schema.validate decodes a document: a CoreAttributes becomes an object, a
\* []CoreAttributes an array, a json.Number keeps its literal.
RECURSIVE Reserialize(_)
Reserialize(x) ==
    CASE x.t \in {"core", "object"} -> Obj([k \in DOMAIN x.v |-> Reserialize(x.v[k])])
      [] x.t \in {"list", "array"} -> Arr([p \in 1..Len(x.v) |-> Reserialize(x.v[p])])
      [] OTHER -> x

-----------------------------------------------------------------------------
(* The schemas and documents the calls are made with. *)

Mutabilities ==
    {attributeMutabilityImmutable, attributeMutabilityReadOnly,
     attributeMutabilityReadWrite, attributeMutabilityWriteOnly}

Returneds ==
    {attributeReturnedAlways, attributeReturnedDefault,
     attributeReturnedNever, attributeReturnedRequest}

\* binary and dateTime share decimal's branch of the type switch, reference
\* shares string's
LeafTypes ==
    {attributeTypeBoolean, attributeTypeDecimal, attributeTypeInteger, attributeTypeString}

\* the sub-attribute lists of a complex attribute: one string sub-attribute "s"
SubAttributeLists ==
    {<<Attr("s", attributeTypeString, <<>>, FALSE, rq, attributeMutabilityReadWrite, re)>> :
        rq \in BOOLEAN, re \in {attributeReturnedDefault, attributeReturnedNever}}
    \cup {<<Attr("s", attributeTypeString, <<>>, FALSE, rq, attributeMutabilityImmutable,
                 attributeReturnedDefault)>> : rq \in BOOLEAN}

LeafAttributes ==
    {Attr("a", ty, <<>>, mv, rq, mu, re) :
        ty \in LeafTypes, mv \in BOOLEAN, rq \in BOOLEAN, mu \in Mutabilities, re \in Returneds}

ComplexAttributes ==
    {Attr("a", attributeTypeComplex, sub, mv, rq, mu, re) :
        sub \in SubAttributeLists, mv \in BOOLEAN, rq \in BOOLEAN,
        mu \in Mutabilities, re \in Returneds}

\* a required string attribute declared ahead of "a"
AttributeB ==
    Attr("b", attributeTypeString, <<>>, FALSE, TRUE,
         attributeMutabilityReadWrite, attributeReturnedDefault)

Schemas ==
    {<<a>> : a \in LeafAttributes \cup ComplexAttributes}
    \cup {<<AttributeB, a>> : a \in {x \in LeafAttributes : x.Type = attributeTypeString}}

\* the maps with keys `keys` whose value under k is drawn from vals[k]
Maps(keys, vals) ==
    {f \in [keys -> UNION {vals[k] : k \in keys}] : \A k \in keys : f[k] \in vals[k]}

\* a map with at most one more entry, from `extras` (a set of <<key, value>>)
WithExtra(f, extras) ==
    {f} \cup {[k \in DOMAIN f \cup {e[1]} |-> IF k = e[1] THEN e[2] ELSE f[k]] : e \in extras}

\* the values tried under sub-attribute "s" and beside it
SubObjects ==
    LET base == {EmptyMap} \cup {[k \in {"s"} |-> x] : x \in {Str("s"), Str("t"), Num(<<"1">>)}}
        extras == {<<"S", Str("s")>>, <<"y", Str("s")>>}
    IN {Obj(g) : g \in UNION {WithExtra(f, extras) : f \in base}}

\* singular values tried for attribute a: right and wrong for its type
Singulars(a) ==
    CASE a.Type = attributeTypeBoolean -> {Bool(TRUE), Bool(FALSE), Str("s")}
      [] a.Type = attributeTypeString -> {Str("s"), Str("t"), Num(<<"1">>)}
      [] a.Type = attributeTypeInteger ->
           {Num(<<"1">>), Num(<<"-", "4", "2">>), Num(<<"1", ".", "5">>),
            Num(<<"1", "e", "2">>), Num(<<"1", "E", "2">>), Str("s")}
      [] a.Type = attributeTypeComplex -> SubObjects \cup {Str("s")}
      [] OTHER -> {Num(<<"1">>), Str("s")}

\* the elements of the arrays tried for attribute a
Elements(a) ==
    IF a.Type = attributeTypeComplex
    THEN {Obj([k \in {"s"} |-> Str("s")]), Obj([k \in {"s", "y"} |-> Str("s")]), Obj(EmptyMap)}
    ELSE IF a.Type = attributeTypeInteger
    THEN {Num(<<"1">>), Num(<<"-", "4", "2">>), Num(<<"1", ".", "5">>)}
    ELSE Singulars(a)

Arrays(elems) == {Arr(q) : q \in UNION {[1..n -> elems] : n \in 0..MaxArr}}

Values(a) == {Null} \cup Singulars(a) \cup Arrays(Elements(a))

\* the documents tried on schema `as`: objects giving each declared
\* attribute no key or one of its values, and at most one more key: a second
\* spelling of "a" or a key that is not declared; and two documents that are
\* no object
Documents(as) ==
    LET names == {as[k].Name : k \in 1..Len(as)}
        byName(n) == CHOOSE a \in {as[k] : k \in 1..Len(as)} : a.Name = n
        vals == [n \in names |-> IF n = "b" THEN {Str("s"), Num(<<"1">>)}
                                  ELSE Values(byName(n))]
        bases == UNION {Maps(ks, vals) : ks \in SUBSET names}
        extras == {<<"A", Null>>, <<"A", Str("s")>>, <<"x", Str("s")>>}
    IN {Obj(g) : g \in UNION {WithExtra(f, extras) : f \in bases}}
       \cup {Malformed, Arr(<<>>)}

\* the orders in which `range` may visit the keys of a map
KeyOrders == {<<"a", "A", "b", "s", "S", "x", "y">>, <<"y", "x", "S", "s", "b", "A", "a">>}

-----------------------------------------------------------------------------
(* The calls. *)

NoResult == Res(NoError, EmptyCore)

\* the goroutines that call schema.validate
Callers == 1..MaxCalls

\* the addresses of the maps the calls allocate.  A call holds one map, and a
\* second one while it returns an error (its accumulator and the
\* CoreAttributes{} it returns); the allocator serves each goroutine from a
\* span of its own, here two addresses wide.
Addresses == 1..(2 * MaxCalls)
Arena(t) == {2 * t - 1, 2 * t}

\* a caller outside schema.validate; acc and out are addresses, 0 is none
NoCall ==
    [pc |-> "idle", raw |-> Null, mode |-> read, idx |-> 0, acc |-> 0,
     err |-> NoError, out |-> 0]

Init ==
    /\ schema = <<>>
    /\ raw = Null
    /\ mode = read
    /\ pc = "init"
    /\ idx = 0
    /\ coreAttributes = EmptyMap
    /\ hit = Null
    /\ attrOut = EmptyCore
    /\ err = NoError
    /\ result = NoResult
    /\ calls = [t \in Callers |-> NoCall]
    /\ heap = [p \in Addresses |-> EmptyMap]

\* the one-time load of the schema the calls are made on
Load(as) ==
    /\ pc = "init"
    /\ schema' = as
    /\ pc' = "idle"
    /\ UNCHANGED <<raw, mode, idx, coreAttributes, hit, attrOut, err, result, calls, heap>>

\* schema.validate up to the first iteration of attributes.validate: the
\* document is decoded and must be an object
Call(doc, md) ==
    /\ pc = "idle"
    /\ raw' = doc
    /\ mode' = md
    /\ idx' = 1
    /\ coreAttributes' = EmptyMap
    /\ hit' = Null
    /\ attrOut' = EmptyCore
    /\ err' = NoError
    /\ IF doc.t = "malformed"
       THEN pc' = "done" /\ result' = Res(ErrDecode, EmptyCore)
       ELSE IF doc.t # "object"
       THEN pc' = "done" /\ result' = Res(ErrType(attributeTypeComplex), EmptyCore)
       ELSE pc' = "loop" /\ result' = NoResult
    /\ UNCHANGED <<schema, calls, heap>>

\* attributes.validate, the state after an iteration that ended with b
Iterated(b) ==
    /\ hit' = b.hit
    /\ attrOut' = b.out
    /\ err' = b.err
    /\ coreAttributes' = b.acc
    /\ IF b.err # NoError
       THEN pc' = "done" /\ idx' = idx /\ result' = ErrorReturn(b.err, b.acc)
       ELSE pc' = "loop" /\ idx' = idx + 1 /\ result' = result
    /\ UNCHANGED <<schema, raw, mode, calls, heap>>

\* attributes.validate, one iteration of the loop over the declared attributes
Step(ord) ==
    /\ pc = "loop"
    /\ idx <= Len(schema)
    /\ Iterated(LoopBody(schema, raw.v, mode, ord, idx, coreAttributes))

\* attributes.validate, the return after the loop
Return ==
    /\ pc = "loop"
    /\ idx > Len(schema)
    /\ pc' = "done"
    /\ result' = Res(NoError, Core(coreAttributes))
    /\ UNCHANGED <<schema, raw, mode, idx, coreAttributes, hit, attrOut, err, calls, heap>>

\* the caller takes the result; the schema serves the next call
Reset ==
    /\ pc = "done"
    /\ pc' = "idle"
    /\ raw' = Null
    /\ mode' = read
    /\ idx' = 0
    /\ coreAttributes' = EmptyMap
    /\ hit' = Null
    /\ attrOut' = EmptyCore
    /\ err' = NoError
    /\ result' = NoResult
    /\ UNCHANGED <<schema, calls, heap>>

Next ==
    \/ pc = "init" /\ \E as \in Schemas : Load(as)
    \/ pc = "idle" /\ \E doc \in Documents(schema) : \E md \in Modes : Call(doc, md)
    \/ \E ord \in KeyOrders : Step(ord)
    \/ Return
    \/ Reset

Spec == Init /\ [][Next]_vars

-----------------------------------------------------------------------------
(* Calls side by side.  Once the schema is loaded, MaxCalls goroutines call  *)
(* schema.validate on it, each with its own document and mode.  What a call  *)
(* keeps is its own: the decoded document, the loop position and the maps it *)
(* allocates, which live in `heap` under their addresses.  A step is one     *)
(* iteration of the loop of attributes.validate; it reads the schema and     *)
(* reads and writes the maps of its own call only, so a finer grain shows no *)
(* other interleaving.                                                       *)

\* the schemas served side by side: a required string "b" ahead of an
\* optional string attribute "a", singular or multi-valued, readWrite or
\* immutable
ConcurrentSchemas ==
    {as \in Schemas :
        /\ Len(as) = 2
        /\ ~as[2].Required
        /\ as[2].Returned = attributeReturnedDefault
        /\ as[2].Mutability \in {attributeMutabilityReadWrite, attributeMutabilityImmutable}}

\* the documents of those calls: both attributes given, "a" given as an
\* array, "b" missing, two spellings of "a", a document that is no object,
\* and bytes that do not decode
ConcurrentDocuments ==
    {Obj([k \in {"a", "b"} |-> Str("s")]),
     Obj([k \in {"a", "b"} |-> IF k = "a" THEN Arr(<<Str("s"), Str("t")>>) ELSE Str("t")]),
     Obj([k \in {"a"} |-> Str("t")]),
     Obj([k \in {"a", "A", "b"} |-> IF k = "A" THEN Str("t") ELSE Str("s")]),
     Arr(<<>>),
     Malformed}

\* the addresses some call still holds
Live(cs) == ({cs[t].acc : t \in Callers} \cup {cs[t].out : t \in Callers}) \ {0}

\* one map for every call, as a package-level accumulator would be
AllocateShared(t, live) == 1

\* make(CoreAttributes), CoreAttributes{} in caller t: a map no call holds
Allocate(t, live) == CHOOSE p \in Arena(t) \ live : \A q \in Arena(t) \ live : p <= q

\* the old variables belong to the call of Spec
sequential == <<raw, mode, pc, idx, coreAttributes, hit, attrOut, err, result>>

\* schema.validate entered by caller t, up to the first iteration of
\* attributes.validate, the accumulator being allocated at address a
Entered(t, doc, md, a) ==
    IF doc.t = "malformed"
    THEN /\ calls' = [calls EXCEPT ![t] =
                        [pc |-> "done", raw |-> doc, mode |-> md, idx |-> 0, acc |-> 0,
                         err |-> ErrDecode, out |-> a]]
         /\ heap' = [heap EXCEPT ![a] = EmptyMap]
    ELSE IF doc.t # "object"
    THEN /\ calls' = [calls EXCEPT ![t] =
                        [pc |-> "done", raw |-> doc, mode |-> md, idx |-> 0, acc |-> 0,
                         err |-> ErrType(attributeTypeComplex),
                         out |-> Allocate(t, Live(calls) \cup {a})]]
         /\ heap' = [p \in Addresses |->
                        IF p \in {a, Allocate(t, Live(calls) \cup {a})} THEN EmptyMap ELSE heap[p]]
    ELSE /\ calls' = [calls EXCEPT ![t] =
                        [pc |-> "loop", raw |-> doc, mode |-> md, idx |-> 1, acc |-> a,
                         err |-> NoError, out |-> 0]]
         /\ heap' = [heap EXCEPT ![a] = EmptyMap]

\* caller t calls schema.validate
Validate(t, doc, md) ==
    /\ pc = "idle"
    /\ calls[t].pc = "idle"
    /\ Entered(t, doc, md, Allocate(t, Live(calls)))
    /\ UNCHANGED <<schema, sequential>>

\* attributes.validate in caller t, the state after an iteration that ended
\* with b; o is the address of the CoreAttributes{} an error returns
IteratedBy(t, b, o) ==
    IF b.err # NoError
    THEN /\ calls' = [calls EXCEPT ![t].pc = "done", ![t].err = b.err,
                                   ![t].acc = 0, ![t].out = o]
         /\ heap' = [p \in Addresses |->
                        IF p = o THEN ErrorReturn(b.err, b.acc).out.v
                        ELSE IF p = calls[t].acc THEN EmptyMap ELSE heap[p]]
    ELSE /\ calls' = [calls EXCEPT ![t].idx = @ + 1]
         /\ heap' = [heap EXCEPT ![calls[t].acc] = b.acc]

\* attributes.validate in caller t, one iteration of the loop over the
\* declared attributes
Iterate(t, ord) ==
    /\ pc = "idle"
    /\ calls[t].pc = "loop"
    /\ calls[t].idx <= Len(schema)
    /\ IteratedBy(t, LoopBody(schema, calls[t].raw.v, calls[t].mode, ord, calls[t].idx,
                              heap[calls[t].acc]),
                  Allocate(t, Live(calls)))
    /\ UNCHANGED <<schema, sequential>>

\* attributes.validate in caller t, the return after the loop: the
\* accumulator itself is what the call returns
Finish(t) ==
    /\ pc = "idle"
    /\ calls[t].pc = "loop"
    /\ calls[t].idx > Len(schema)
    /\ calls' = [calls EXCEPT ![t].pc = "done", ![t].out = calls[t].acc, ![t].acc = 0]
    /\ UNCHANGED <<schema, sequential, heap>>

\* caller t is through with the result; its map is garbage
Take(t) ==
    /\ pc = "idle"
    /\ calls[t].pc = "done"
    /\ calls' = [calls EXCEPT ![t] = NoCall]
    /\ heap' = [heap EXCEPT ![calls[t].out] = EmptyMap]
    /\ UNCHANGED <<schema, sequential>>

NextConcurrent ==
    \/ pc = "init" /\ \E as \in ConcurrentSchemas : Load(as)
    \/ \E t \in Callers : \E doc \in ConcurrentDocuments : \E md \in Modes : Validate(t, doc, md)
    \/ \E t \in Callers : \E ord \in KeyOrders : Iterate(t, ord)
    \/ \E t \in Callers : Finish(t)
    \/ \E t \in Callers : Take(t)

SpecConcurrent == Init /\ [][NextConcurrent]_vars

-----------------------------------------------------------------------------
(* Vocabulary of the properties. *)

Done == pc = "done"
Failed == Done /\ result.err # NoError
Succeeded == Done /\ result.err = NoError

\* the position of the attribute attributes.validate handled last, 0 if none
Handled ==
    IF pc \in {"loop", "done"} THEN (IF err # NoError THEN idx ELSE idx - 1) ELSE 0

Stepped == Handled >= 1
HandledAttr == schema[Handled]

\* the keys of map c that match `name` case-insensitively
Matching(name, c) == {k \in DOMAIN c : EqualFold(name, k)}

\* a value was matched for the attribute handled last and handed to
\* attribute.validate
Present == Stepped /\ err.kind # "duplicate key" /\ hit.t # "null"

Emitted(a) == a.Returned \in {attributeReturnedAlways, attributeReturnedDefault}

\* the call made step by step returns what attributes.validate, taken as one
\* recursive function (as it is on a complex value), returns
StepwiseAgrees ==
    Done => \A ord \in KeyOrders : SchemaValidate(schema, raw, mode, ord) = result

-----------------------------------------------------------------------------
(* C1 *)

\* x, a mapping produced for the attribute list as, holds a key of an
\* attribute declared Returned=never, at the top or inside a list or a
\* complex value it emits
RECURSIVE HoldsNever(_, _)
RECURSIVE HoldsNeverIn(_, _)
HoldsNever(as, x) ==
    \E n \in 1..Len(as) : \E k \in Matching(as[n].Name, x.v) :
        \/ as[n].Returned = attributeReturnedNever
        \/ HoldsNeverIn(as[n], x.v[k])

HoldsNeverIn(a, y) ==
    CASE y.t \in {"list", "array"} -> \E p \in 1..Len(y.v) : HoldsNeverIn(a, y.v[p])
      [] y.t = "core" -> a.Name \in DOMAIN y.v /\ HoldsNeverIn(a, y.v[a.Name])
      [] y.t = "object" -> a.Type = attributeTypeComplex /\ HoldsNever(a.SubAttributes, y)
      [] OTHER -> FALSE

\* C1: whatever the schema, the document and the mode, the mapping validate()
\* returns holds no value of an attribute declared Returned=never: not as a
\* top-level key, not inside an emitted list, not inside an emitted complex
\* value.
C1_NeverNotReturned == Done => ~HoldsNever(schema, result.out)

-----------------------------------------------------------------------------
(* C5 *)

\* C5: a multi-valued attribute given [] in write mode fails with the
\* empty-required-array error when it is Required; when it is not, validation
\* of it succeeds and neither what attribute.validate returns for it nor the
\* mapping validate() returns has a key for it.
C5_EmptyArray ==
    (Present /\ mode = write /\ HandledAttr.MultiValued /\ hit = Arr(<<>>)) =>
        IF HandledAttr.Required
        THEN err = ErrEmptyArray
        ELSE /\ err = NoError
             /\ HandledAttr.Name \notin DOMAIN attrOut.v
             /\ Succeeded => HandledAttr.Name \notin DOMAIN result.out.v

-----------------------------------------------------------------------------
(* C7 *)

\* the literal holds no decimal point and no exponent marker of either case
PlainInteger(lit) == ~Contains(lit, ".") /\ ~Contains(lit, "e") /\ ~Contains(lit, "E")

\* C7: an integer-typed singular attribute, when its type is checked, accepts
\* a value exactly when it is a numeric literal with no decimal point and no
\* exponent marker, in either letter case.
C7_IntegerLiteral ==
    (/\ Present
     /\ HandledAttr.Type = attributeTypeInteger
     /\ ~HandledAttr.MultiValued
     /\ MutabilityGate(HandledAttr, mode) = "pass") =>
        /\ (err = NoError) <=> (hit.t = "number" /\ PlainInteger(hit.v))
        /\ hit.t # "number" => err = ErrNumber
        /\ (hit.t = "number" /\ ~PlainInteger(hit.v)) => err = ErrNotInteger

-----------------------------------------------------------------------------
(* C8 *)

\* C8: in replace mode a present value of a readOnly attribute, a value of
\* the shape the attribute takes (any value of a singular one, a non-empty
\* array of a multi-valued one), is accepted without error and the attribute
\* contributes no key, to what attribute.validate returns and to the mapping
\* validate() returns.
C8_ReadOnlyDropped ==
    (/\ Present
     /\ mode = replace
     /\ HandledAttr.Mutability = attributeMutabilityReadOnly
     /\ HandledAttr.MultiValued => (hit.t = "array" /\ Len(hit.v) > 0)) =>
        /\ err = NoError
        /\ HandledAttr.Name \notin DOMAIN attrOut.v
        /\ Succeeded => HandledAttr.Name \notin DOMAIN result.out.v

-----------------------------------------------------------------------------
(* C9 *)

\* map f with one more entry
Put(f, key, value) == [k \in DOMAIN f \cup {key} |-> IF k = key THEN value ELSE f[k]]

\* the values got from x by adding the key "y", which no attribute declares,
\* to one object of x: x itself or an element of x
RECURSIVE AddInside(_)
AddInside(x) ==
    CASE x.t = "object" ->
           IF "y" \in DOMAIN x.v THEN {} ELSE {Obj(Put(x.v, "y", Str("s")))}
      [] x.t = "array" ->
           {Arr([x.v EXCEPT ![p] = o]) : <<p, o>> \in
               UNION {{<<q, n>> : n \in AddInside(x.v[q])} : q \in 1..Len(x.v)}}
      [] OTHER -> {}

\* the documents got from doc by adding one key that no attribute declares:
\* "x" at the top level, or "y" inside the value of one of its keys
AddUnknownKey(doc) ==
    IF doc.t # "object" THEN {}
    ELSE (IF "x" \in DOMAIN doc.v THEN {}
          ELSE {Obj(Put(doc.v, "x", val)) : val \in {Str("s"), Null}})
         \cup UNION {{Obj(Put(doc.v, k, n)) : n \in AddInside(doc.v[k])} : k \in DOMAIN doc.v}

\* C9: adding to the document, at the top level or inside a complex value, a
\* key that matches no declared attribute changes neither whether validate()
\* succeeds nor the mapping it returns.
C9_UnknownKeysIgnored ==
    Done => \A d \in AddUnknownKey(raw) : \A ord \in KeyOrders :
                SchemaValidate(schema, d, mode, ord) = result

\* the part of C9 that the code keeps: keys added at the top level
C9_TopLevelIgnored ==
    (Done /\ raw.t = "object" /\ "x" \notin DOMAIN raw.v) =>
        \A val \in {Str("s"), Null} : \A ord \in KeyOrders :
            SchemaValidate(schema, Obj(Put(raw.v, "x", val)), mode, ord) = result

-----------------------------------------------------------------------------
(* C2 *)

\* validate(M, write) on the mapping M of the finished call, re-serialized,
\* succeeds and returns M again
RoundTrips ==
    \A ord \in KeyOrders :
        SchemaValidate(schema, Reserialize(result.out), write, ord) = result

RoundTrippable ==
    \A n \in 1..Len(schema) :
        /\ (schema[n].MultiValued /\ schema[n].Name \in DOMAIN result.out.v) =>
               result.out.v[schema[n].Name].v = <<>>
        /\ (schema[n].Required /\ ~schema[n].MultiValued) => Emitted(schema[n])

-----------------------------------------------------------------------------
(* C3 *)

\* the value handed to attribute.validate for the attribute handled last
\* validates in write mode
ValidInWrite == \A ord \in KeyOrders : AttributeValidate(HandledAttr, hit, write, ord).err = NoError

\* C3 as stated, on the inputs both of its halves speak of: in replace mode
\* every present value of an immutable attribute that validates in write mode
\* fails with the immutable-field error.
C3_ImmutableRejected ==
    (/\ Present
     /\ mode = replace
     /\ HandledAttr.Mutability = attributeMutabilityImmutable
     /\ ValidInWrite) =>
        err = ErrImmutable(HandledAttr.Name)

\* the value reaches validateSingular: any value of a singular attribute, a
\* non-empty array of a multi-valued one
ReachesSingular(a, x) == a.MultiValued => (x.t = "array" /\ Len(x.v) > 0)

\* the sub-attribute of the complex attribute a whose value in object x
\* reaches validateSingular in replace mode: a is singular and passes its own
\* mutability gate, and x gives the sub-attribute one key with a value
SubAttributePresent(a, x) ==
    /\ a.Type = attributeTypeComplex
    /\ ~a.MultiValued
    /\ MutabilityGate(a, replace) = "pass"
    /\ x.t = "object"
    /\ Cardinality(Matching(a.SubAttributes[1].Name, x.v)) = 1
    /\ \A k \in Matching(a.SubAttributes[1].Name, x.v) : x.v[k].t # "null"

\* C3 (amended): in replace mode an immutable attribute whose value reaches
\* the singular check (any present value of a singular attribute, a non-empty
\* array of a multi-valued one, the value of a sub-attribute inside a complex
\* value that passed its own mutability gate) fails with the immutable-field
\* error whatever the value is; in write mode the same value never raises
\* that error, and it validates exactly when it validates in read mode.  A
\* value of a multi-valued immutable attribute that does not reach validateSingular
\* is judged on its shape alone: the empty array is accepted unless the
\* attribute is Required, a value that is no array is refused as such.
C3_ImmutableRejectedWhenReached ==
    /\ (/\ Present
        /\ mode = replace
        /\ HandledAttr.Mutability = attributeMutabilityImmutable
        /\ ReachesSingular(HandledAttr, hit)) =>
           /\ err = ErrImmutable(HandledAttr.Name)
           /\ Failed /\ result.err = err
           /\ \A ord \in KeyOrders :
                /\ AttributeValidate(HandledAttr, hit, write, ord).err.kind # "immutable field"
                /\ AttributeValidate(HandledAttr, hit, write, ord).err = NoError
                     <=> AttributeValidate(HandledAttr, hit, read, ord).err = NoError
    /\ (/\ Present
        /\ mode = replace
        /\ SubAttributePresent(HandledAttr, hit)
        /\ HandledAttr.SubAttributes[1].Mutability = attributeMutabilityImmutable) =>
           /\ err = ErrImmutable(HandledAttr.SubAttributes[1].Name)
           /\ \A ord \in KeyOrders :
                AttributeValidate(HandledAttr, hit, write, ord).err.kind # "immutable field"
    /\ (/\ Present
        /\ mode = replace
        /\ HandledAttr.Mutability = attributeMutabilityImmutable
        /\ ~ReachesSingular(HandledAttr, hit)) =>
           err = IF hit.t # "array" THEN ErrSlice
                 ELSE IF HandledAttr.Required THEN ErrEmptyArray ELSE NoError

\* an immutable attribute rejected in replace mode on a value that validates
\* in write mode
C3_Witness ==
    /\ Present
    /\ mode = replace
    /\ HandledAttr.Mutability = attributeMutabilityImmutable
    /\ HandledAttr.MultiValued
    /\ Len(hit.v) = MaxArr
    /\ err = ErrImmutable(HandledAttr.Name)
    /\ ValidInWrite

-----------------------------------------------------------------------------
(* C4 *)

\* the n-th declared attribute is Required and no key of the document
\* matches its name
RequiredMissing(n) ==
    raw.t = "object" /\ schema[n].Required /\ Matching(schema[n].Name, raw.v) = {}

\* object x has no key matching the Required sub-attribute of a
SubRequiredMissing(a, x) ==
    /\ a.Type = attributeTypeComplex
    /\ a.SubAttributes[1].Required
    /\ x.t = "object"
    /\ Matching(a.SubAttributes[1].Name, x.v) = {}

-----------------------------------------------------------------------------
(* C6 *)

\* two or more keys of the document match the n-th declared attribute
DuplicateKeys(n) == raw.t = "object" /\ Cardinality(Matching(schema[n].Name, raw.v)) >= 2

\* C6 as stated: a document with two keys matching the same declared
\* attribute makes validate() fail with the duplicate-key error, in every
\* mode, whatever the values and the order of the keys.
C6_DuplicateKey ==
    Done => \A n \in 1..Len(schema) :
        DuplicateKeys(n) => result.err = ErrDuplicate(ToLower(schema[n].Name))

\* C6 (amended): a document with two keys matching the same declared
\* attribute makes validate() fail in every mode, whatever the values under
\* the keys (null included) and the order in which they are visited: at that
\* attribute with the duplicate-key error, unless an attribute declared before
\* it fails first.
C6_DuplicateKeyUnlessEarlier ==
    Done => \A n \in 1..Len(schema) :
        DuplicateKeys(n) =>
           /\ result.err # NoError
           /\ idx <= n
           /\ idx = n => result.err = ErrDuplicate(ToLower(schema[n].Name))

\* a call rejected for two spellings of a key, null under the first, after
\* an earlier attribute validated
C6_Witness ==
    /\ Failed
    /\ Len(schema) = 2
    /\ idx = 2
    /\ DOMAIN raw.v = {"a", "A", "b"}
    /\ raw.v["a"].t = "null"
    /\ raw.v["A"].t = "string"
    /\ result.err = ErrDuplicate("a")

-----------------------------------------------------------------------------
(* C10 *)

\* what the n-th declared attribute alone makes of the document: the error of
\* its scan of the keys or of attribute.validate on the value matched
AttributeError(n, ord) ==
    IF Scan(schema[n].Name, raw.v, ord).err # NoError
    THEN Scan(schema[n].Name, raw.v, ord).err
    ELSE AttributeValidate(schema[n], Scan(schema[n].Name, raw.v, ord).hit, mode, ord).err

\* the declared attributes that fail on the document
Failing(ord) == {n \in 1..Len(schema) : AttributeError(n, ord) # NoError}

\* the first of them in schema order
FirstFailing(ord) == CHOOSE n \in Failing(ord) : \A m \in Failing(ord) : n <= m

\* the elements of array x that fail as values of attribute a
FailingElements(a, x, ord) ==
    {p \in 1..Len(x.v) : ValidateSingular(a, x.v[p], mode, ord).err # NoError}

\* C10: validation stops at the first error.  The attributes are handled in
\* schema order; while the loop runs every attribute before its position
\* validated; a call that ends on an object ends with the error of the first
\* declared attribute that fails, at that attribute, and with no error when
\* none fails; the error of a multi-valued attribute is that of its first
\* failing element; and a call that returns an error returns the empty
\* mapping.
C10_FirstErrorOnly ==
    \A ord \in KeyOrders :
        /\ (pc = "loop") => \A n \in 1..(idx - 1) : AttributeError(n, ord) = NoError
        /\ (Done /\ raw.t = "object") =>
              IF Failing(ord) = {}
              THEN result.err = NoError /\ idx = Len(schema) + 1
              ELSE /\ result.err = AttributeError(FirstFailing(ord), ord)
                   /\ idx = FirstFailing(ord)
        /\ (Present /\ HandledAttr.MultiValued /\ hit.t = "array"
              /\ FailingElements(HandledAttr, hit, ord) # {}) =>
              \E p \in FailingElements(HandledAttr, hit, ord) :
                 /\ \A q \in FailingElements(HandledAttr, hit, ord) : p <= q
                 /\ err = ValidateSingular(HandledAttr, hit.v[p], mode, ord).err
        /\ Failed => result.out = EmptyCore

\* a write-mode call that ends on the error of the second attribute, the
\* first one's value already in the accumulator, and returns no mapping
C10_Witness ==
    /\ Failed
    /\ mode = write
    /\ Len(schema) = 2
    /\ idx = 2
    /\ DOMAIN coreAttributes = {"b"}
    /\ hit.t = "array" /\ Len(hit.v) = 2
    /\ err = ErrType(attributeTypeString)
    /\ result = Res(err, EmptyCore)

-----------------------------------------------------------------------------
(* C11 *)

\* what the finished call of caller t returned
ResultOf(t) == Res(calls[t].err, Core(heap[calls[t].out]))

\* what the call of caller t returns when it runs alone, for every order in
\* which its maps may be visited
Alone(t) ==
    {SchemaValidate(schema, calls[t].raw, calls[t].mode, ord) : ord \in KeyOrders}

\* what the call of caller t, in its loop, returns when it goes on alone
GoesOnAlone(t) ==
    {AttributesLoop(schema, calls[t].raw.v, calls[t].mode, ord, calls[t].idx,
                    heap[calls[t].acc]) : ord \in KeyOrders}

\* the maps caller t holds
Cells(t) == {calls[t].acc, calls[t].out} \ {0}

\* every finished call returned what it returns alone, and every call in its
\* loop is where it is when it runs alone
C11_SameAsAlone ==
    \A t \in Callers :
        /\ calls[t].pc = "done" => ResultOf(t) \in Alone(t)
        /\ calls[t].pc = "loop" => GoesOnAlone(t) \subseteq Alone(t)

\* no map is held by two calls
C11_NothingShared ==
    \A t, u \in Callers : t # u => Cells(t) \cap Cells(u) = {}

\* a step after the load leaves the schema as it is
C11_SchemaKept == pc = "idle" => schema' = schema

\* a step leaves alone every call but the one that takes it, and the maps
\* that call holds
C11_OthersUntouched ==
    \A t \in Callers :
        calls'[t] = calls[t] => \A p \in Cells(t) : heap'[p] = heap[p]

\* C11: after the one-time load, validate() calls interleaved in any order on
\* the same schema, in any mix of modes, are independent: each call returns
\* what it returns when run alone, no step of a call changes the schema, no
\* map of a call (its accumulator, the mapping it returned) is held by
\* another call, and no step of one call changes a map of another.
C11_CallsIndependent ==
    /\ [](C11_SameAsAlone /\ C11_NothingShared)
    /\ [][C11_SchemaKept /\ C11_OthersUntouched]_vars

\* caller 1 is halfway through a replace-mode call, "b" in its accumulator,
\* while caller 2 holds the mapping of a finished write-mode call on another
\* document
C11_Witness ==
    /\ calls[1].pc = "loop" /\ calls[1].mode = replace /\ calls[1].idx = 2
    /\ DOMAIN heap[calls[1].acc] = {"b"}
    /\ calls[2].pc = "done" /\ calls[2].mode = write /\ calls[2].err = NoError
    /\ calls[2].raw # calls[1].raw
    /\ DOMAIN heap[calls[2].out] = {"a", "b"}
    /\ heap[calls[2].out]["a"].t = "list"
    /\ ResultOf(2) \in Alone(2)

-----------------------------------------------------------------------------
(* C12 *)

\* every element of array x validates as a singular value of attribute a
AllValidate(a, x, md) ==
    \A p \in 1..Len(x.v) : \A ord \in KeyOrders :
        ValidateSingular(a, x.v[p], md, ord).err = NoError

\* the entry validateSingular makes of element e of attribute a: the element
\* under the attribute's name when the attribute is returned (always or
\* default) and, in replace mode, not readOnly; the empty mapping otherwise
Entry(a, e, md) ==
    IF Returnable(a, md) /\ MutabilityGate(a, md) = "pass"
    THEN Single(a.Name, e)
    ELSE EmptyCore

\* C12: a multi-valued attribute given a non-empty array whose elements all
\* validate emits nothing in read mode; in write and replace mode what it
\* emits has exactly one key, the attribute's Name, and under it an ordered
\* list with one entry per input element, in input order, the k-th entry being
\* what validation made of the k-th element; that list is what the call
\* returns under the name when it succeeds.  A present value that is no array
\* fails with the array-expected error and fails the call.
C12_MultiValuedList ==
    /\ (/\ Present /\ HandledAttr.MultiValued
        /\ hit.t = "array" /\ Len(hit.v) > 0
        /\ AllValidate(HandledAttr, hit, mode)) =>
           /\ err = NoError
           /\ IF mode = read
              THEN /\ attrOut = EmptyCore
                   /\ HandledAttr.Name \notin DOMAIN coreAttributes
              ELSE /\ DOMAIN attrOut.v = {HandledAttr.Name}
                   /\ attrOut.v[HandledAttr.Name].t = "list"
                   /\ Len(attrOut.v[HandledAttr.Name].v) = Len(hit.v)
                   /\ \A k \in 1..Len(hit.v) :
                        /\ attrOut.v[HandledAttr.Name].v[k] = Entry(HandledAttr, hit.v[k], mode)
                        /\ \A ord \in KeyOrders :
                             attrOut.v[HandledAttr.Name].v[k]
                               = ValidateSingular(HandledAttr, hit.v[k], mode, ord).out
                   /\ coreAttributes[HandledAttr.Name] = attrOut.v[HandledAttr.Name]
                   /\ Succeeded => result.out.v[HandledAttr.Name] = attrOut.v[HandledAttr.Name]
    /\ (Present /\ HandledAttr.MultiValued /\ hit.t # "array") =>
           /\ err = ErrSlice
           /\ Failed /\ result = Res(ErrSlice, EmptyCore)

\* a finished write-mode call on an array of two different strings: the list
\* under "a" holds them in the order of the document
C12_Witness ==
    /\ Succeeded /\ mode = write
    /\ Present /\ HandledAttr.MultiValued /\ HandledAttr.Type = attributeTypeString
    /\ hit = Arr(<<Str("s"), Str("t")>>)
    /\ result.out.v["a"] = List(<<Single("a", Str("s")), Single("a", Str("t"))>>)

=============================================================================
